---- MODULE Spec2Model ----
(***************************************************************************)
(* Model of src/app.py: the synthetic telemetry generator generate_data,   *)
(* the module-level daily rollup, and the Room Detail page query.          *)
(*                                                                         *)
(* Numbers are exact fixed-point rationals, each column with one           *)
(* denominator:                                                            *)
(*   random()            r / RandDen              r in 0..RandDen-1        *)
(*   base_power          whole watts                                       *)
(*   usage, power        u / PowerDen watts       (unrounded)              *)
(*   row.power           tenths of a watt         (round(power, 1))        *)
(*   row.voltage         hundredths of a volt     (round(voltage, 2))      *)
(*   row.current         thousandths of an ampere (round(current, 3))      *)
(*   row.energy_kwh      e / EnergyDen kWh                                 *)
(*   row.cost_daily      c / (TariffDen * EnergyDen) currency units        *)
(*   row.co2_g           g * Co2Unit / EnergyDen grams                     *)
(* Strings are sequences of one-character strings; a timestamp is the      *)
(* number of minutes since 2025-11-01 00:00.                               *)
(***************************************************************************)
EXTENDS Integers, Sequences, FiniteSets, TLC

\* ------------------------------------------------------------- bounds
\* rooms of the list the generation loop visits (the code visits all 80)
MaxRooms == 2
\* days of the horizon (the code: 15)
HorizonDays == 4
\* spacing of the timestamps in minutes (the code: 1)
FreqMinutes == 300
\* seeds the random module can start from are 0..MaxSeed
MaxSeed == 4
\* processes started one after the other
MaxRuns == 2

\* ------------------------------------------------------ program constants
NumFloors == 10
ROOMS_PER_FLOOR == 8
TOTAL_ROOMS == NumFloors * ROOMS_PER_FLOOR
\* datetime(2025, 11, 1).weekday(): a Saturday
StartWeekday == 5
MinutesPerDay == 1440
NpSeed == 42
\* status threshold in watts
OnThreshold == 100

\* resolution of random(): the draws are r / RandDen
RandDen == 170
PowerDen == 10 * RandDen
EnergyDen == PowerDen * 1000 * 60
\* 8.5 = TariffNum / TariffDen
TariffNum == 17
TariffDen == 2
\* 720 g/kWh, kept in units of Co2Unit / EnergyDen grams
EmissionFactor == 720
Co2Unit == 240

\* ------------------------------------------------------------- strings
Digits == <<"0", "1", "2", "3", "4", "5", "6", "7", "8", "9">>

\* str(n) for 0 <= n < 100
Str(n) == IF n < 10 THEN <<Digits[n + 1]>>
          ELSE <<Digits[(n \div 10) + 1], Digits[(n % 10) + 1]>>

\* f"{n:02d}" for 0 <= n < 100
Format02d(n) == <<Digits[(n \div 10) + 1], Digits[(n % 10) + 1]>>

\* s[a:b] of Python, 0 <= a
Slice(s, a, b) == SubSeq(s, a + 1, IF b < Len(s) THEN b ELSE Len(s))

\* s.replace('0', '')
ReplaceZero(s) == SelectSeq(s, LAMBDA ch : ch # "0")

\* s.split(): the maximal runs of non-blank characters
RECURSIVE Split(_)
Split(s) ==
    IF s = <<>> THEN <<>>
    ELSE IF Head(s) = " " THEN Split(Tail(s))
    ELSE LET rest == Split(Tail(s))
         IN  IF Len(s) > 1 /\ s[2] # " "
             THEN <<(<<Head(s)>> \o Head(rest))>> \o Tail(rest)
             ELSE <<(<<Head(s)>>)>> \o rest

\* f"Floor {i}" for i in range(1, 11)
FLOORS == [i \in 1..NumFloors |-> <<"F", "l", "o", "o", "r", " ">> \o Str(i)]

\* f"FUB-{floor.split()[1]}{f'{room:02d}'}"
RoomId(floor, room) == <<"F", "U", "B", "-">> \o Split(floor)[2] \o Format02d(room)

\* for floor in FLOORS for room in range(1, ROOMS_PER_FLOOR + 1)
rooms == [k \in 1..TOTAL_ROOMS |->
            RoomId(FLOORS[((k - 1) \div ROOMS_PER_FLOOR) + 1],
                   ((k - 1) % ROOMS_PER_FLOOR) + 1)]

\* the rooms the generation loop visits
LoopRooms == SubSeq(rooms, 1, IF MaxRooms < TOTAL_ROOMS THEN MaxRooms ELSE TOTAL_ROOMS)

\* room[4:7].replace('0', '')
FloorField(room) == ReplaceZero(Slice(room, 4, 7))

\* ---------------------------------------------------------- timestamps
\* datetime(2025, 11, 15, 23, 59): the last minute of the horizon
EndTs == HorizonDays * MinutesPerDay - 1

\* dates with the end of the range taken as exclusive of its last timestamp
DatesWithoutLast == [j \in 1..(EndTs \div FreqMinutes) |-> (j - 1) * FreqMinutes]

\* pd.date_range(start, end, freq): start, start + freq, ... up to end inclusive
dates == [j \in 1..((EndTs \div FreqMinutes) + 1) |-> (j - 1) * FreqMinutes]

DateOf(ts) == ts \div MinutesPerDay
Weekday(ts) == (StartWeekday + DateOf(ts)) % 7
Hour(ts) == (ts % MinutesPerDay) \div 60

\* ------------------------------------------------------- random module
\* The random module is a deterministic generator whose state is seeded from the
\* operating system when the module is imported (line 7); the script never
\* seeds it (line 28 seeds numpy's generator, which nothing reads). The model
\* keeps the determinism with a small full-period generator: a state, a
\* transition, and the draw read off the state.
\* state transition of the generator behind random.random()
NextState(s) == (5 * s + 91) % 1024
\* the draw the state yields, as a numerator over RandDen
Output(s) == (s * RandDen) \div 1024

\* random.uniform(a, b) = a + (b - a) * random(), numerator over RandDen
Uniform(a, b, r) == a * RandDen + (b - a) * r

\* round(x, n) of a value num / den, to the nearest unit, ties to even
Round(num, den) ==
    LET q == num \div den
        rem == num % den
    IN  IF 2 * rem > den \/ (2 * rem = den /\ q % 2 = 1) THEN q + 1 ELSE q

\* ------------------------------------------------------ generate_data
\* ts.weekday() >= 5
IsWeekend(ts) == Weekday(ts) >= 5

\* IsOffHour with hour > 18 for hour >= 18
IsOffHourAfter18(hour) == (0 <= hour /\ hour < 8) \/ hour > 18

\* 0 <= hour < 8 or hour >= 18
IsOffHour(hour) == (0 <= hour /\ hour < 8) \/ hour >= 18

\* 12 <= hour < 14
IsLunchHour(hour) == 12 <= hour /\ hour < 14

\* random.random() < 0.9
WeekendIdle(r) == 10 * r < 9 * RandDen

\* base_power * random.uniform(lo, hi) with lo, hi in tenths: numerator over PowerDen
Load(base, lo, hi, r) == base * Uniform(lo, hi, r)

\* WeekendUsage with the weekday factor uniform(0.8, 1.1)
WeekendUsageFullLoad(base, s) ==
    LET s1 == NextState(s)
    IN  IF WeekendIdle(Output(s1))
        THEN [usage |-> 0, state |-> s1]
        ELSE LET s2 == NextState(s1)
             IN  [usage |-> Load(base, 8, 11, Output(s2)), state |-> s2]

\* line 36: 0 if random.random() < 0.9 else base_power * random.uniform(0.1, 0.4)
WeekendUsage(base, s) ==
    LET s1 == NextState(s)
    IN  IF WeekendIdle(Output(s1))
        THEN [usage |-> 0, state |-> s1]
        ELSE LET s2 == NextState(s1)
             IN  [usage |-> Load(base, 1, 4, Output(s2)), state |-> s2]

\* WeekdayUsage with the lunch factor uniform(0.3, 0.6) in every occupied hour
WeekdayUsageLunchAllDay(hour, base, s) ==
    IF IsOffHour(hour)
    THEN [usage |-> 0, state |-> s]
    ELSE LET s1 == NextState(s)
         IN  [usage |-> Load(base, 3, 6, Output(s1)), state |-> s1]

\* lines 38-44
WeekdayUsage(hour, base, s) ==
    IF IsOffHour(hour)
    THEN [usage |-> 0, state |-> s]
    ELSE LET s1 == NextState(s)
         IN  IF IsLunchHour(hour)
             THEN [usage |-> Load(base, 3, 6, Output(s1)), state |-> s1]
             ELSE [usage |-> Load(base, 8, 11, Output(s1)), state |-> s1]

\* lines 35-44: the usage of one minute and the generator state after its draws
Usage(ts, base, s) ==
    IF IsWeekend(ts) THEN WeekendUsage(base, s) ELSE WeekdayUsage(Hour(ts), base, s)

\* usage / voltage if usage > 0 else 0, rounded to 3 places: thousandths of an ampere
\* (usage / PowerDen) / (voltage / RandDen) * 1000 = (1000 * RandDen / PowerDen) * usage / voltage
Current(usage, voltage) ==
    IF usage > 0 THEN Round(((1000 * RandDen) \div PowerDen) * usage, voltage) ELSE 0

\* power / 1000 / 60: the same numerator, over EnergyDen = PowerDen * 1000 * 60
EnergyKwh(power) == power

\* Status with the threshold applied to the power rounded to one decimal
StatusOfRoundedPower(power) ==
    IF Round(10 * power, PowerDen) > 10 * OnThreshold THEN "ON" ELSE "OFF"

\* 'ON' if power > 100 else 'OFF', on the unrounded power
Status(power) == IF power > OnThreshold * PowerDen THEN "ON" ELSE "OFF"

\* lines 46-61: the row of one minute and the generator state after its draws
Sample(ts, room, base, s) ==
    LET u == Usage(ts, base, s)
        sv == NextState(u.state)
        voltage == Uniform(220, 230, Output(sv))
        power == u.usage
    IN  [row |-> [timestamp |-> ts,
                  room |-> room,
                  floor |-> FloorField(room),
                  voltage |-> Round(100 * voltage, RandDen),
                  current |-> Current(u.usage, voltage),
                  power |-> Round(10 * power, PowerDen),
                  energy_kwh |-> EnergyKwh(power),
                  status |-> Status(power),
                  scheduled |-> TRUE],
         state |-> sv]

VARIABLES
    pc,          \* where the script is
    run,         \* the number of the process running the script
    py_state,    \* state of the random module's generator
    np_state,    \* seed of numpy's generator: <<>> until np.random.seed
    cache,       \* st.cache_data: <<>> or <<table>>
    room_i,      \* index of the room the outer loop is at
    ts_i,        \* index of the timestamp the inner loop is at
    base_power,  \* base_power of the current room
    base_powers, \* history: the base_power drawn for each room so far
    data,        \* the list of rows built by generate_data
    df,          \* the module-level frame
    detail,      \* what the Room Detail page rendered
    prev_table   \* history: the table the previous process generated

vars == <<pc, run, py_state, np_state, cache, room_i, ts_i, base_power,
          base_powers, data, df, detail, prev_table>>

Seeds == 0..MaxSeed

NoDetail == [room |-> <<>>, rows |-> 0, power |-> 0, status |-> "",
             daily_energy |-> 0, bill |-> 0, hourly |-> <<>>]

Init ==
    /\ pc = "start"
    /\ run = 1
    /\ py_state \in Seeds
    /\ np_state = <<>>
    /\ cache = <<>>
    /\ room_i = 0
    /\ ts_i = 0
    /\ base_power = 0
    /\ base_powers = <<>>
    /\ data = <<>>
    /\ df = <<>>
    /\ detail = NoDetail
    /\ prev_table = <<>>

\* line 65 with lines 22-29: df = generate_data(); a cached table is returned as is
CallGenerate ==
    /\ pc = "start"
    /\ IF cache # <<>>
       THEN /\ df' = cache[1]
            /\ pc' = "rollup"
            /\ UNCHANGED <<np_state, room_i, data, base_powers>>
       ELSE /\ np_state' = <<NpSeed>>
            /\ data' = <<>>
            /\ base_powers' = <<>>
            /\ room_i' = 1
            /\ pc' = "for_room"
            /\ df' = <<>>
    /\ UNCHANGED <<run, py_state, cache, ts_i, base_power, detail, prev_table>>

\* lines 31-32: the next room of the outer loop and its base_power
BeginRoom ==
    /\ pc = "for_room"
    /\ room_i <= Len(LoopRooms)
    /\ LET s1 == NextState(py_state)
           b == Uniform(800, 2500, Output(s1)) \div RandDen
       IN  /\ py_state' = s1
           /\ base_power' = b
           /\ base_powers' = Append(base_powers, b)
    /\ ts_i' = 1
    /\ pc' = "for_ts"
    /\ UNCHANGED <<run, np_state, cache, room_i, data, df, detail, prev_table>>

\* lines 33-61: one iteration of the inner loop
GenSample ==
    /\ pc = "for_ts"
    /\ ts_i <= Len(dates)
    /\ LET r == Sample(dates[ts_i], LoopRooms[room_i], base_power, py_state)
       IN  /\ data' = Append(data, r.row)
           /\ py_state' = r.state
    /\ ts_i' = ts_i + 1
    /\ UNCHANGED <<pc, run, np_state, cache, room_i, base_power, base_powers,
                   df, detail, prev_table>>

\* line 33: the inner loop is exhausted
EndRoom ==
    /\ pc = "for_ts"
    /\ ts_i > Len(dates)
    /\ room_i' = room_i + 1
    /\ pc' = "for_room"
    /\ UNCHANGED <<run, py_state, np_state, cache, ts_i, base_power, base_powers,
                   data, df, detail, prev_table>>

\* lines 63 and 65: return pd.DataFrame(data), cached, bound to df
ReturnTable ==
    /\ pc = "for_room"
    /\ room_i > Len(LoopRooms)
    /\ cache' = <<data>>
    /\ df' = data
    /\ pc' = "rollup"
    /\ UNCHANGED <<run, py_state, np_state, room_i, ts_i, base_power, base_powers,
                   data, detail, prev_table>>

\* ------------------------------------------------------ lines 66-69
\* GroupSum with groupby(['date']) alone
RECURSIVE GroupSumByDate(_, _, _)
GroupSumByDate(frame, room, date) ==
    IF frame = <<>> THEN 0
    ELSE (IF DateOf(Head(frame).timestamp) = date
          THEN Head(frame).energy_kwh ELSE 0)
         + GroupSumByDate(Tail(frame), room, date)

\* groupby(['room', 'date'])['energy_kwh'].transform('sum') for one group
RECURSIVE GroupSum(_, _, _)
GroupSum(frame, room, date) ==
    IF frame = <<>> THEN 0
    ELSE (IF Head(frame).room = room /\ DateOf(Head(frame).timestamp) = date
          THEN Head(frame).energy_kwh ELSE 0)
         + GroupSum(Tail(frame), room, date)

\* df['energy_daily'] * 8.5, numerator over TariffDen * EnergyDen
CostDaily(energy_daily) == energy_daily * TariffNum

\* Co2G with the tariff 8.5 used as the emission factor
Co2GWithTariff(energy_kwh) == energy_kwh * TariffNum

\* df['energy_kwh'] * 720, in units of Co2Unit / EnergyDen grams
Co2G(energy_kwh) == energy_kwh * (EmissionFactor \div Co2Unit)

\* the row with the columns of lines 66-69 added
Rolled(frame, row) ==
    LET energy_daily == GroupSum(frame, row.room, DateOf(row.timestamp))
    IN  [timestamp |-> row.timestamp, room |-> row.room, floor |-> row.floor,
         voltage |-> row.voltage, current |-> row.current, power |-> row.power,
         energy_kwh |-> row.energy_kwh, status |-> row.status,
         scheduled |-> row.scheduled,
         date |-> DateOf(row.timestamp),
         energy_daily |-> energy_daily,
         cost_daily |-> CostDaily(energy_daily),
         co2_g |-> Co2G(row.energy_kwh)]

Rollup ==
    /\ pc = "rollup"
    /\ df' = [n \in 1..Len(df) |-> Rolled(df, df[n])]
    /\ pc' = "page"
    /\ UNCHANGED <<run, py_state, np_state, cache, room_i, ts_i, base_power,
                   base_powers, data, detail, prev_table>>

\* ------------------------------------------------------ Room Detail page
\* the dates st.date_input can return: before, inside and after the horizon
Dates == (0 - 1)..HorizonDays

RECURSIVE SumEnergy(_)
SumEnergy(frame) ==
    IF frame = <<>> THEN 0 ELSE Head(frame).energy_kwh + SumEnergy(Tail(frame))

RECURSIVE SumCost(_)
SumCost(frame) ==
    IF frame = <<>> THEN 0 ELSE Head(frame).cost_daily + SumCost(Tail(frame))

\* frame.sort_values('timestamp').iloc[-1] of a non-empty frame
Latest(frame) ==
    CHOOSE row \in {frame[n] : n \in 1..Len(frame)} :
        \A n \in 1..Len(frame) : frame[n].timestamp <= row.timestamp

\* set_index('timestamp').resample('1H')['energy_kwh'].sum() of a non-empty frame:
\* one bucket for every hour from the first row's to the last row's
Hourly(frame) ==
    LET first == frame[1].timestamp \div 60
        last == Latest(frame).timestamp \div 60
    IN  [b \in 1..(last - first + 1) |->
            SumEnergy(SelectSeq(frame,
                LAMBDA row : row.timestamp \div 60 = first + b - 1))]

\* lines 148-149
Filtered(frame, room, start_date, end_date) ==
    SelectSeq(SelectSeq(frame, LAMBDA row : row.room = room),
              LAMBDA row : DateOf(row.timestamp) >= start_date
                           /\ DateOf(row.timestamp) <= end_date)

\* lines 136-163: iloc[-1] of an empty frame raises IndexError
RoomDetail(room, start_date, end_date) ==
    /\ pc = "page"
    /\ LET filtered == Filtered(df, room, start_date, end_date)
       IN  IF filtered = <<>>
           THEN /\ pc' = "IndexError"
                /\ UNCHANGED detail
           ELSE /\ pc' = "done"
                /\ detail' =
                     [room |-> room,
                      rows |-> Len(filtered),
                      power |-> Latest(filtered).power,
                      status |-> Latest(filtered).status,
                      daily_energy |-> SumEnergy(SelectSeq(filtered,
                                          LAMBDA row : row.date = end_date)),
                      bill |-> SumCost(SelectSeq(filtered,
                                          LAMBDA row : row.date = end_date)),
                      hourly |-> Hourly(filtered)]
    /\ UNCHANGED <<run, py_state, np_state, cache, room_i, ts_i, base_power,
                   base_powers, data, df, prev_table>>

\* lines 171-174: the Schedules page renders two fixed messages
Schedules ==
    /\ pc = "page"
    /\ pc' = "done"
    /\ UNCHANGED <<run, py_state, np_state, cache, room_i, ts_i, base_power,
                   base_powers, data, df, detail, prev_table>>

\* Streamlit runs the script again in the same process: the cache is kept
Rerun ==
    /\ pc \in {"done", "IndexError"}
    /\ pc' = "start"
    /\ df' = <<>>
    /\ detail' = NoDetail
    /\ UNCHANGED <<run, py_state, np_state, cache, room_i, ts_i, base_power,
                   base_powers, data, prev_table>>

\* a fresh process: nothing cached, the random module seeded from the system
Restart ==
    /\ pc \in {"done", "IndexError"}
    /\ run < MaxRuns
    /\ run' = run + 1
    /\ prev_table' = cache[1]
    /\ py_state' \in Seeds
    /\ np_state' = <<>>
    /\ cache' = <<>>
    /\ pc' = "start"
    /\ room_i' = 0
    /\ ts_i' = 0
    /\ base_power' = 0
    /\ base_powers' = <<>>
    /\ data' = <<>>
    /\ df' = <<>>
    /\ detail' = NoDetail

Next ==
    \/ CallGenerate
    \/ BeginRoom
    \/ GenSample
    \/ EndRoom
    \/ ReturnTable
    \/ Rollup
    \* st.selectbox("Select Room", rooms), among the rooms the table holds
    \/ \E room \in {LoopRooms[i] : i \in 1..Len(LoopRooms)} :
         \E start_date \in Dates : \E end_date \in Dates :
            RoomDetail(room, start_date, end_date)
    \/ Schedules
    \/ Rerun
    \/ Restart

Spec == Init /\ [][Next]_vars

\* ------------------------------------------------------------ properties
\* Saturday or Sunday: 2025-11-01, day 0 of the horizon, is a Saturday
IsSatOrSun(ts) == ((ts \div MinutesPerDay) % 7) \in {0, 1}

HourOfDay(ts) == (ts \div 60) % 24

\* the base_power drawn for the room of a row
BaseOf(row) ==
    base_powers[CHOOSE k \in 1..Len(LoopRooms) : LoopRooms[k] = row.room]

\* lo/10 * base <= u / PowerDen <= hi/10 * base
InBand(u, base, lo, hi) ==
    lo * PowerDen * base <= 100 * u /\ 100 * u <= hi * PowerDen * base

\* the energy of the rows of `frame` whose index is in S
RECURSIVE EnergyOver(_, _)
EnergyOver(frame, S) ==
    IF S = {} THEN 0
    ELSE LET n == CHOOSE n \in S : TRUE
         IN  frame[n].energy_kwh + EnergyOver(frame, S \ {n})

\* the rows of `frame` with the room and the date of frame[n]
RoomDate(frame, n) ==
    {m \in 1..Len(frame) :
        /\ frame[m].room = frame[n].room
        /\ frame[m].timestamp \div MinutesPerDay = frame[n].timestamp \div MinutesPerDay}

\* C1 as stated: every sample on a Saturday or Sunday has power 0.
WeekendPowerIsZero ==
    \A n \in 1..Len(data) : IsSatOrSun(data[n].timestamp) => data[n].power = 0

\* C1, amended: the unrounded power of a sample on a Saturday or Sunday is 0 or
\* lies in [0.1 * base_power, 0.4 * base_power] of its room.
WeekendPowerZeroOrIdleDraw ==
    \A n \in 1..Len(data) :
        IsSatOrSun(data[n].timestamp) =>
            \/ data[n].energy_kwh = 0 /\ data[n].power = 0
            \/ InBand(data[n].energy_kwh, BaseOf(data[n]), 10, 40)

WeekendIdleDrawSeen ==
    \E n \in 1..Len(data) : IsSatOrSun(data[n].timestamp) /\ data[n].power > 0

\* C2 as stated: two fresh processes generate identical tables.
FreshRunsGenerateSameTable ==
    (run > 1 /\ cache # <<>>) => cache[1] = prev_table

\* C3 as stated: cost_daily and co2_g of every sample equal the totals of its
\* room-date: total energy x 8.5 and total energy x 720.
CostAndCo2AreRoomDateTotals ==
    pc = "page" =>
        \A n \in 1..Len(df) :
            LET total == EnergyOver(df, RoomDate(df, n))
            IN  /\ df[n].cost_daily = TariffNum * total
                /\ df[n].co2_g = (EmissionFactor \div Co2Unit) * total

\* C3, amended: cost_daily of every sample is the total energy of its room-date
\* x 8.5; co2_g is the sample's own one-minute energy x 720.
CostIsRoomDateTotalCo2IsPerSample ==
    pc = "page" =>
        \A n \in 1..Len(df) :
            LET total == EnergyOver(df, RoomDate(df, n))
            IN  /\ df[n].cost_daily = TariffNum * total
                /\ df[n].co2_g = (EmissionFactor \div Co2Unit) * df[n].energy_kwh

Co2BelowRoomDateTotalSeen ==
    /\ pc = "page"
    /\ \E n \in 1..Len(df) :
          /\ df[n].energy_kwh > 0
          /\ df[n].cost_daily > TariffNum * df[n].energy_kwh
          /\ df[n].co2_g = (EmissionFactor \div Co2Unit) * df[n].energy_kwh

IsOccupiedHour(h) == (8 <= h /\ h < 12) \/ (14 <= h /\ h < 18)

\* C4 as stated: the power of a weekday sample with hour in [8,12) or [14,18)
\* lies in [0.85 * base_power, 1.15 * base_power].
OccupiedPowerWithin85To115 ==
    \A n \in 1..Len(data) :
        (~IsSatOrSun(data[n].timestamp) /\ IsOccupiedHour(HourOfDay(data[n].timestamp))) =>
            /\ 85 * BaseOf(data[n]) <= 10 * data[n].power
            /\ 10 * data[n].power <= 115 * BaseOf(data[n])

\* C4, amended: the unrounded power of a weekday sample with hour in [8,12) or
\* [14,18) lies in [0.8 * base_power, 1.1 * base_power].
OccupiedPowerWithin80To110 ==
    \A n \in 1..Len(data) :
        (~IsSatOrSun(data[n].timestamp) /\ IsOccupiedHour(HourOfDay(data[n].timestamp))) =>
            InBand(data[n].energy_kwh, BaseOf(data[n]), 80, 110)

OccupiedPowerBelow85Seen ==
    \E n \in 1..Len(data) :
        /\ ~IsSatOrSun(data[n].timestamp)
        /\ IsOccupiedHour(HourOfDay(data[n].timestamp))
        /\ data[n].power > 0
        /\ 10 * data[n].power < 85 * BaseOf(data[n])

\* the floor number of a room of the list
FloorOfRoom(room) ==
    ((CHOOSE k \in 1..TOTAL_ROOMS : rooms[k] = room) - 1) \div ROOMS_PER_FLOOR + 1

\* C5 as stated: the floor field of every sample is the floor number its room
\* was generated for.
FloorFieldIsFloorOfRoom ==
    \A n \in 1..Len(data) : data[n].floor = Str(FloorOfRoom(data[n].room))

\* C6 as stated: a Room Detail query whose date range matches no sample
\* completes; it never raises.
EmptyRangeQueryDoesNotRaise == pc # "IndexError"

\* C7: after the rollup every row carries the daily energy of its (room, date),
\* the sum of the energy of exactly the rows of that room and date, zero totals
\* included, and the daily cost is that energy x 8.5.
DailyRollupIsRoomDateSum ==
    pc = "page" =>
        \A n \in 1..Len(df) :
            /\ df[n].date = df[n].timestamp \div MinutesPerDay
            /\ df[n].energy_daily = EnergyOver(df, RoomDate(df, n))
            /\ TariffDen * df[n].cost_daily = (TariffNum * TariffDen) * df[n].energy_daily

ZeroAndPositiveRollupSeen ==
    /\ pc = "page"
    /\ \E n \in 1..Len(df) :
          IsSatOrSun(df[n].timestamp) /\ df[n].energy_daily = 0 /\ df[n].cost_daily = 0
    /\ \E n \in 1..Len(df) :
          df[n].energy_kwh > 0 /\ df[n].energy_daily > df[n].energy_kwh
    /\ \E n, m \in 1..Len(df) :
          df[n].room # df[m].room /\ df[n].date = df[m].date
          /\ df[n].energy_daily > 0 /\ df[m].energy_daily > 0

\* the timestamps of the horizon: every FreqMinutes from the start to the end
Grid == {k * FreqMinutes : k \in 0..((HorizonDays * MinutesPerDay - 1) \div FreqMinutes)}

\* C8: the room ids are pairwise distinct, and the returned table holds exactly
\* one sample for every room of the loop and every timestamp of the horizon, no
\* others, grouped by room in list order with timestamps ascending in each room.
OneSamplePerRoomAndMinute ==
    /\ Len(rooms) = NumFloors * ROOMS_PER_FLOOR
    /\ \A i, j \in 1..Len(rooms) : i # j => rooms[i] # rooms[j]
    /\ pc = "rollup" =>
         /\ \A k \in 1..Len(LoopRooms) : \A ts \in Grid :
               Cardinality({n \in 1..Len(df) :
                   df[n].room = LoopRooms[k] /\ df[n].timestamp = ts}) = 1
         /\ \A n \in 1..Len(df) :
               /\ df[n].timestamp \in Grid
               /\ \E k \in 1..Len(LoopRooms) : df[n].room = LoopRooms[k]
         /\ \A n \in 1..(Len(df) - 1) :
               \/ df[n].room = df[n + 1].room /\ df[n].timestamp < df[n + 1].timestamp
               \/ \E i, j \in 1..Len(LoopRooms) :
                     i < j /\ df[n].room = LoopRooms[i] /\ df[n + 1].room = LoopRooms[j]
                     /\ df[n].timestamp = (Cardinality(Grid) - 1) * FreqMinutes
                     /\ df[n + 1].timestamp = 0

FullTableReturned ==
    /\ pc = "rollup"
    /\ Len(LoopRooms) > 1
    /\ Len(df) = Len(LoopRooms) * Cardinality(Grid)
    /\ df[1].room # df[Len(df)].room

\* C9: a weekday sample whose hour is outside [8,18) has power 0, current 0,
\* energy 0 and status OFF, and the returned table holds such a sample for every
\* room of the loop and every such timestamp: generating it did not raise.
OffHoursSampleIsZero ==
    /\ \A n \in 1..Len(data) :
          (~IsSatOrSun(data[n].timestamp)
              /\ (HourOfDay(data[n].timestamp) < 8 \/ HourOfDay(data[n].timestamp) >= 18)) =>
             /\ data[n].power = 0
             /\ data[n].current = 0
             /\ data[n].energy_kwh = 0
             /\ data[n].status = "OFF"
    /\ pc = "rollup" =>
          \A k \in 1..Len(LoopRooms) : \A ts \in Grid :
             (~IsSatOrSun(ts) /\ (HourOfDay(ts) < 8 \/ HourOfDay(ts) >= 18)) =>
                \E n \in 1..Len(df) :
                   df[n].room = LoopRooms[k] /\ df[n].timestamp = ts /\ df[n].power = 0

OffHoursSampleSeen ==
    /\ \E n \in 1..Len(data) :
          ~IsSatOrSun(data[n].timestamp) /\ HourOfDay(data[n].timestamp) < 8
          /\ data[n].power = 0 /\ data[n].status = "OFF"
    /\ \E n \in 1..Len(data) :
          ~IsSatOrSun(data[n].timestamp) /\ HourOfDay(data[n].timestamp) >= 18
          /\ data[n].power = 0 /\ data[n].status = "OFF"

\* C10 as stated: the status of a sample is ON if and only if its stored
\* (rounded) power is greater than 100 W.
StatusOnIffStoredPowerAbove100 ==
    \A n \in 1..Len(data) :
        data[n].status = "ON" <=> data[n].power > 10 * OnThreshold

\* C10, amended: the status of a sample is ON if and only if its power before
\* rounding is greater than 100 W, so the stored power of an ON sample is at
\* least 100.0 W and that of an OFF sample at most 100.0 W.
StatusOnIffUnroundedPowerAbove100 ==
    \A n \in 1..Len(data) :
        /\ data[n].status \in {"ON", "OFF"}
        /\ data[n].status = "ON" <=> data[n].energy_kwh > OnThreshold * PowerDen
        /\ data[n].status = "ON" => data[n].power >= 10 * OnThreshold
        /\ data[n].status = "OFF" => data[n].power <= 10 * OnThreshold

OnWithStoredPower100Seen ==
    \E n \in 1..Len(data) :
        data[n].status = "ON" /\ data[n].power = 10 * OnThreshold

====
